---- MODULE Spec2Model ----
(***************************************************************************)
(* Model of src/infod_sample.py: class InfoDrop (an attack that optimises  *)
(* three JPEG-style quantization tables against a classifier).             *)
(*                                                                         *)
(* Conventions of the model                                                *)
(*  - A Python name that is unbound or None is the empty tuple << >>.      *)
(*  - Tensors are tuples.  A quantization table has                        *)
(*    batch_size * block_n * block_size^2 elements that are all updated    *)
(*    by the same element-wise expression; the model keeps the tracked     *)
(*    elements Elems of each table and, separately, the block-count        *)
(*    dimension block_n of its shape.  q_size is an integer, as in the     *)
(*    default (10) and in the driver (40).                                 *)
(*  - The image batch has batch_size images (the tables are built with a   *)
(*    leading dimension batch_size and are combined element-wise with the  *)
(*    image blocks), so labels and pre have batch_size entries.            *)
(*  - alpha is a real number.  Every value it takes has the form           *)
(*    (c0 * 0.1 + c1 * 1e-20) / steps with integers c0, c1; the model      *)
(*    stores the pair <<c0, c1>> and computes with it exactly.             *)
(*  - The block pipeline (utils / compression / decompression) and the     *)
(*    classifier are outside this file: the reconstructed pixels, the      *)
(*    predictions and the gradients are inputs drawn from small sets.      *)
(*    Predictions range over Classes; the labels passed to forward range   *)
(*    over Labels, a subset of Classes (only equality of a prediction and  *)
(*    its label is ever used, lines 102 and 104).                          *)
(***************************************************************************)
EXTENDS Integers, Naturals, Sequences, FiniteSets, TLC

\* ---------------------------------------------------------------- bounds
MaxSteps == 2
MaxCalls == 2

\* ------------------------------------------------------ program constants
min_factor == 5
pixel_min == 0
pixel_max == 255

\* ------------------------------------------------------------ input sets
StepsSet == (0 - 1)..MaxSteps
BatchSizes == {1, 2}
QSizes == {4, 5, 7}
Heights == {16}
Widths == {16}
BlockSizes == {8}
ShapeSteps == {0, 1}
ShapeBatchSizes == {1}
ShapeQSizes == {6}
ShapeHeights == {8, 12, 16, 24}
ShapeWidths == {8, 12, 16}
ShapeBlockSizes == {4, 8}
Classes == {0, 1}
Labels == {1}
PixelVals == {0 - 1, 128, 256}
Grads == {0 - 1, 0, 2}
Elems == {1}
Pixels == {1}

None == << >>
marks == <<"y", "cb", "cr">>

VARIABLES pc, err, steps, targeted, batch_size, height, width, block_size,
          factor_range, alpha_range, alpha, alpha_interval, block_n,
          q_tables, i, labels, rgb_images, pre, suc_rate, adv_cost, grad,
          result, ops, calls, iters, updates, first_all, alpha0

cfg == <<steps, targeted, batch_size, height, width, block_size,
         factor_range, alpha_range, alpha_interval, block_n>>
locals == <<i, labels, rgb_images, pre, suc_rate, adv_cost, grad>>
ghost == <<ops, calls, iters, updates, first_all, alpha0>>
vars == <<pc, err, cfg, alpha, q_tables, locals, result, ghost>>

\* ------------------------------------------------------- pure operators

\* np.ceil(a / b) for positive b
Ceil(a, b) == (a + b - 1) \div b

\* block_n of line 54
BlockCount(h, w, bs) == Ceil(h, bs) * Ceil(h, bs)

\* exact reals (c0 * 0.1 + c1 * 1e-20) / steps as pairs <<c0, c1>>
RAdd(a, b) == <<a[1] + b[1], a[2] + b[2]>>

\* a <= b for pairs over the same denominator den (0 < 1e-20 << 0.1)
RLeq(a, b, den) ==
    LET lex(x, y) == x[1] < y[1] \/ (x[1] = y[1] /\ x[2] <= y[2])
    IN  IF den > 0 THEN lex(a, b) ELSE lex(b, a)

\* torch.sign
Sign(x) == IF x > 0 THEN 1 ELSE IF x < 0 THEN 0 - 1 ELSE 0

\* torch.clamp(x, lo, hi) = min(max(x, lo), hi); hi wins when lo > hi
Clamp(x, lo, hi) ==
    LET m == IF x < lo THEN lo ELSE x
    IN  IF m > hi THEN hi ELSE m

\* the update without the clamp of line 120
UpdateTable_noclamp(t, g, fr) ==
    [e \in DOMAIN t |-> t[e] - Sign(g[e])]

\* the update with a magnitude-scaled step instead of the sign step
UpdateTable_magnitude(t, g, fr) ==
    [e \in DOMAIN t |-> Clamp(t[e] - g[e], fr[1], fr[2])]

\* lines 119-120 for one table
UpdateTable(t, g, fr) ==
    [e \in DOMAIN t |-> Clamp(t[e] - Sign(g[e]), fr[1], fr[2])]

\* lines 101-104: (pre == labels).sum() / batch_size, kept as a fraction
Matches(p, l) == Cardinality({n \in DOMAIN p : p[n] = l[n]})
Mismatches(p, l) == Cardinality({n \in DOMAIN p : p[n] # l[n]})
SucRate(tg, p, l, bsz) ==
    IF tg THEN <<Matches(p, l), bsz>> ELSE <<Mismatches(p, l), bsz>>

\* the threshold test satisfied by any single success
ReachedThreshold_any(sr) == sr[1] >= 1

\* line 123: suc_rate >= 1
ReachedThreshold(sr) == sr[1] >= sr[2]

\* the image clamp without its upper bound
ClampImage_lower(img) ==
    [x \in DOMAIN img |-> IF img[x] < pixel_min THEN pixel_min ELSE img[x]]

\* lines 125 / 127: torch.clamp(rgb_images, min=0, max=255.0)
ClampImage(img) == [x \in DOMAIN img |-> Clamp(img[x], pixel_min, pixel_max)]

\* ------------------------------------------------------------------ Init
Init ==
    /\ pc = "new"
    /\ err = None
    /\ steps = 0 /\ targeted = FALSE /\ batch_size = 0
    /\ height = 0 /\ width = 0 /\ block_size = 0
    /\ factor_range = None /\ alpha_range = None
    /\ alpha = None /\ alpha_interval = None
    /\ block_n = 0
    /\ q_tables = None
    /\ i = 0 - 1 /\ labels = None /\ rgb_images = None /\ pre = None
    /\ suc_rate = None /\ adv_cost = 0 /\ grad = None
    /\ result = None
    /\ ops = << >> /\ calls = 0 /\ iters = 0 /\ updates = 0
    /\ first_all = None
    /\ alpha0 = None

\* ------------------------------------------------------------- __init__
\* lines 41-65.  Line 53 divides by steps: steps = 0 raises
\* ZeroDivisionError after lines 43-52 have run.
Construct(SS, BS, QS, HS, WS, KS) ==
    /\ pc = "new"
    /\ \E st \in SS, tg \in BOOLEAN, bsz \in BS, q \in QS,
          h \in HS, w \in WS, bs \in KS :
        /\ steps' = st
        /\ targeted' = tg
        /\ batch_size' = bsz
        /\ height' = h
        /\ width' = w
        /\ block_size' = bs
        /\ factor_range' = <<min_factor, q>>
        /\ alpha_range' = << <<st, 0>>, <<0, st>> >>
        /\ alpha' = <<st, 0>>
        /\ IF st = 0
           THEN /\ pc' = "ctor_error"
                /\ err' = "ZeroDivisionError"
                /\ alpha_interval' = None
                /\ block_n' = 0
                /\ q_tables' = None
           ELSE /\ pc' = "ready"
                /\ err' = None
                /\ alpha_interval' = <<0 - 1, 1>>
                /\ block_n' = BlockCount(h, w, bs)
                /\ q_tables' = [k \in 1..3 |-> [e \in Elems |-> q]]
    /\ UNCHANGED <<locals, result, ghost>>

InfoDrop_init == Construct(StepsSet, BatchSizes, QSizes, Heights, Widths, BlockSizes)

InfoDrop_init_shapes ==
    Construct(ShapeSteps, ShapeBatchSizes, ShapeQSizes,
              ShapeHeights, ShapeWidths, ShapeBlockSizes)

\* -------------------------------------------------------------- forward
\* the loop body with the table update moved before the alpha increment
StepOrder_swapped ==
    <<"reconstruct", "classify", "suc_rate", "loss", "backward", "update",
      "alpha", "decide">>

\* the statements of one loop iteration in program order (lines 83-126)
StepOrder ==
    <<"reconstruct", "classify", "suc_rate", "loss", "backward", "alpha",
      "update", "decide">>

\* the statement that follows statement p of the loop body
After(p) ==
    LET n == CHOOSE k \in 1..Len(StepOrder) : StepOrder[k] = p
    IN  StepOrder[n + 1]

\* lines 71-81: a call of forward on the constructed instance.  alpha and
\* q_tables are whatever the instance holds (lines 72-73 only move alpha
\* to the device); the loop variable is not bound yet.
forward_begin ==
    /\ pc \in {"ready", "returned", "raised"}
    /\ calls < MaxCalls
    /\ \E l \in [1..batch_size -> Labels] : labels' = l
    /\ i' = 0 - 1
    /\ rgb_images' = None /\ pre' = None /\ suc_rate' = None
    /\ adv_cost' = 0 /\ grad' = None
    /\ result' = None /\ err' = None
    /\ ops' = << >> /\ calls' = calls + 1 /\ iters' = 0
    /\ first_all' = None /\ alpha0' = alpha
    /\ pc' = "for"
    /\ UNCHANGED <<cfg, alpha, q_tables, updates>>

\* line 82: for i in range(self.steps)
for_next ==
    /\ pc = "for"
    /\ IF i + 1 < steps
       THEN /\ i' = i + 1
            /\ iters' = iters + 1
            /\ ops' = << >>
            /\ pc' = StepOrder[1]
       ELSE /\ pc' = "after_loop"
            /\ UNCHANGED <<i, iters, ops>>
    /\ UNCHANGED <<err, cfg, alpha, q_tables, labels, rgb_images, pre,
                   suc_rate, adv_cost, grad, result, calls, updates,
                   first_all, alpha0>>

\* lines 83-98: split, DCT, quantize, dequantize, IDCT, merge, concatenate
reconstruct ==
    /\ pc = "reconstruct"
    /\ \E img \in [Pixels -> PixelVals] : rgb_images' = img
    /\ ops' = Append(ops, "reconstruct")
    /\ pc' = After("reconstruct")
    /\ UNCHANGED <<err, cfg, alpha, q_tables, i, labels, pre, suc_rate,
                   adv_cost, grad, result, calls, iters, updates,
                   first_all, alpha0>>

\* the attack's goal on a batch, image by image
Goal(tg, p, l) ==
    IF tg THEN \A n \in DOMAIN p : p[n] = l[n]
          ELSE \A n \in DOMAIN p : p[n] # l[n]

\* lines 99-100: outputs = self.model(rgb_images); pre = argmax
classify ==
    /\ pc = "classify"
    /\ \E p \in [1..batch_size -> Classes] :
        /\ pre' = p
        /\ first_all' = IF first_all = None /\ Goal(targeted, p, labels)
                        THEN <<i>> ELSE first_all
    /\ ops' = Append(ops, "classify")
    /\ pc' = After("classify")
    /\ UNCHANGED <<err, cfg, alpha, q_tables, i, labels, rgb_images,
                   suc_rate, adv_cost, grad, result, calls, iters, updates,
                   alpha0>>

\* lines 101-104
success_rate ==
    /\ pc = "suc_rate"
    /\ suc_rate' = SucRate(targeted, pre, labels, batch_size)
    /\ ops' = Append(ops, "suc_rate")
    /\ pc' = After("suc_rate")
    /\ UNCHANGED <<err, cfg, alpha, q_tables, i, labels, rgb_images, pre,
                   adv_cost, grad, result, calls, iters, updates,
                   first_all, alpha0>>

\* lines 106-111: cross entropy, negated when untargeted (kept as its sign)
compute_loss ==
    /\ pc = "loss"
    /\ adv_cost' = IF targeted THEN 1 ELSE 0 - 1
    /\ ops' = Append(ops, "loss")
    /\ pc' = After("loss")
    /\ UNCHANGED <<err, cfg, alpha, q_tables, i, labels, rgb_images, pre,
                   suc_rate, grad, result, calls, iters, updates,
                   first_all, alpha0>>

\* lines 112-113: optimizer.zero_grad(); total_cost.backward()
backward ==
    /\ pc = "backward"
    /\ \E g \in [1..3 -> [Elems -> Grads]] : grad' = g
    /\ ops' = Append(ops, "backward")
    /\ pc' = After("backward")
    /\ UNCHANGED <<err, cfg, alpha, q_tables, i, labels, rgb_images, pre,
                   suc_rate, adv_cost, result, calls, iters, updates,
                   first_all, alpha0>>

\* the alpha increment restarting from the start of the range
alpha_step_reset ==
    /\ pc = "alpha"
    /\ alpha' = RAdd(alpha_range[1], alpha_interval)
    /\ ops' = Append(ops, "alpha")
    /\ pc' = After("alpha")
    /\ UNCHANGED <<err, cfg, q_tables, locals, result, calls, iters,
                   updates, first_all, alpha0>>

\* line 115: self.alpha += self.alpha_interval
alpha_step ==
    /\ pc = "alpha"
    /\ alpha' = RAdd(alpha, alpha_interval)
    /\ ops' = Append(ops, "alpha")
    /\ pc' = After("alpha")
    /\ UNCHANGED <<err, cfg, q_tables, locals, result, calls, iters,
                   updates, first_all, alpha0>>

\* lines 118-120: sign step and clamp of the three tables.  The gradients
\* stay attached to the replaced tensors until the iteration ends.
update_tables ==
    /\ pc = "update"
    /\ q_tables' = [k \in 1..3 |-> UpdateTable(q_tables[k], grad[k], factor_range)]
    /\ updates' = updates + 1
    /\ ops' = Append(ops, "update")
    /\ pc' = After("update")
    /\ UNCHANGED <<err, cfg, alpha, locals, result, calls, iters,
                   first_all, alpha0>>

\* lines 123-126: early return with the step index
decide ==
    /\ pc = "decide"
    /\ IF ReachedThreshold(suc_rate)
       THEN /\ result' = <<ClampImage(rgb_images), pre, <<i>> >>
            /\ pc' = "returned"
       ELSE /\ pc' = "for"
            /\ UNCHANGED result
    /\ grad' = None
    /\ UNCHANGED <<err, cfg, alpha, q_tables, i, labels, rgb_images, pre,
                   suc_rate, adv_cost, ghost>>

\* lines 127-129: after the loop.  rgb_images is bound only by the loop
\* body, so line 127 raises UnboundLocalError when no iteration ran.
after_loop ==
    /\ pc = "after_loop"
    /\ IF rgb_images = None
       THEN /\ pc' = "raised"
            /\ err' = "UnboundLocalError"
            /\ UNCHANGED result
       ELSE /\ result' = <<ClampImage(rgb_images), pre, None>>
            /\ pc' = "returned"
            /\ UNCHANGED err
    /\ UNCHANGED <<cfg, alpha, q_tables, locals, ghost>>

Forward ==
    \/ forward_begin \/ for_next \/ reconstruct \/ classify \/ success_rate
    \/ compute_loss \/ backward \/ alpha_step \/ update_tables \/ decide
    \/ after_loop

Next == InfoDrop_init \/ Forward
Spec == Init /\ [][Next]_vars

NextShape == InfoDrop_init_shapes \/ Forward
SpecShape == Init /\ [][NextShape]_vars

\* ------------------------------------------------------------ properties
Constructed == pc \notin {"new", "ctor_error"}
InBody == pc \in {"reconstruct", "classify", "suc_rate", "loss", "backward",
                  "alpha", "update", "decide"}
RScale(k, a) == <<k * a[1], k * a[2]>>
Abs(x) == IF x < 0 THEN 0 - x ELSE x

\* C1: forward returns at the first iteration whose predictions all meet
\* the goal (targeted: all equal to the labels; untargeted: all different),
\* returns that index as the step, and runs no iteration after it.
C1_StopsAtFirstSuccess ==
    /\ (InBody \/ pc \in {"for", "after_loop"})
            => (first_all = None \/ first_all = <<i>>)
    /\ (pc \in {"for", "after_loop"}) => first_all = None
    /\ pc = "returned" =>
         /\ result[3] = first_all
         /\ result[3] # None =>
              /\ result[3][1] = i /\ iters = i + 1
              /\ 0 <= i /\ i < steps
              /\ Goal(targeted, result[2], labels)

C1_Witness ==
    /\ pc = "returned" /\ result[3] = <<1>> /\ batch_size = 2 /\ targeted

C3_TablesInRangeAnyQ ==
    updates > 0 =>
        \A k \in 1..3 : \A e \in Elems :
            factor_range[1] <= q_tables[k][e] /\ q_tables[k][e] <= factor_range[2]

\* C3 (amended): after any table update every element of the three tables
\* lies within [min_factor, max_factor] when q_size >= min_factor, and
\* equals max_factor = q_size when q_size < min_factor.
C3_TablesInRange ==
    updates > 0 =>
        \A k \in 1..3 : \A e \in Elems :
            IF factor_range[2] >= factor_range[1]
            THEN factor_range[1] <= q_tables[k][e]
                 /\ q_tables[k][e] <= factor_range[2]
            ELSE q_tables[k][e] = factor_range[2]

C3_Witness ==
    /\ pc = "decide" /\ updates = 2 /\ factor_range[2] = 7
    /\ grad[1][1] = 2 /\ q_tables[1][1] = 5
    /\ grad[2][1] = 0 - 1 /\ q_tables[2][1] = 7

\* C4: every image batch forward returns has all pixels within [0, 255],
\* on the early return and on the return after the loop.
C4_ReturnedPixelsClamped ==
    pc = "returned" =>
        \A x \in DOMAIN result[1] :
            pixel_min <= result[1][x] /\ result[1][x] <= pixel_max

C4_Witness ==
    /\ pc = "returned" /\ result[3] = None
    /\ rgb_images[1] = 256 /\ result[1][1] = 255

\* C5: within a run alpha is the run's initial alpha plus one
\* alpha_interval per executed iteration; a run that exhausts the loop has
\* applied steps increments and one that succeeds at step s has applied
\* s + 1 <= steps.
C5_AlphaOncePerIteration ==
    /\ (InBody \/ pc \in {"for", "after_loop", "returned"}) =>
         LET n == IF pc \in {"reconstruct", "classify", "suc_rate", "loss",
                             "backward", "alpha"}
                  THEN iters - 1 ELSE iters
         IN  alpha = RAdd(alpha0, RScale(n, alpha_interval))
    /\ pc = "raised" => alpha = alpha0
    /\ pc = "returned" =>
         IF result[3] = None THEN iters = steps
         ELSE iters = result[3][1] + 1 /\ iters <= steps

C5_Witness ==
    /\ pc = "returned" /\ result[3] = None /\ steps = 2 /\ calls = 1
    /\ alpha = alpha_range[2]

\* C6 (as stated): the block-count dimension of the tables is
\* ceil(H / block_size) * ceil(W / block_size).
C6_BlockCountIsCeilProduct ==
    Constructed => block_n = Ceil(height, block_size) * Ceil(width, block_size)

\* C7 (as stated): a height or width that block_size does not divide is
\* rejected by __init__.
C7_NonDivisibleRejected ==
    (pc # "new" /\ (height % block_size # 0 \/ width % block_size # 0))
        => pc = "ctor_error"

\* C8: an update moves every table element by one unit against the sign of
\* its gradient, or leaves it when the gradient is zero or the clamp binds;
\* the tables change in no other statement of forward.
C8_UnitSignStep ==
    [][Constructed =>
        IF pc = "update"
        THEN \A k \in 1..3 : \A e \in Elems :
               LET old == q_tables[k][e]
                   d == q_tables'[k][e] - old
                   tgt == old - Sign(grad[k][e])
               IN  /\ Abs(d) <= 1
                   /\ d = 0 \/ d = 0 - Sign(grad[k][e])
                   /\ d = 0 => \/ grad[k][e] = 0
                               \/ tgt < factor_range[1]
                               \/ tgt > factor_range[2]
        ELSE q_tables' = q_tables]_vars

C8_Witness ==
    /\ pc = "decide" /\ updates = 1 /\ factor_range[2] = 7
    /\ grad[1][1] = 2 /\ q_tables[1][1] = 6
    /\ grad[2][1] = 0 - 1 /\ q_tables[2][1] = 7

\* C9 (as stated): a step reconstructs, classifies, computes the loss,
\* backpropagates, updates the tables, increments alpha and then computes
\* the success rate its early-stop decision uses.
C9_SpecOrder ==
    pc = "decide" =>
        ops = <<"reconstruct", "classify", "loss", "backward", "update",
                "alpha", "suc_rate">>

\* C9 (amended): a step reconstructs, classifies, computes the success
\* rate, computes the loss, backpropagates, increments alpha and then
\* updates the tables; the early-stop decision uses the success rate of the
\* predictions made before that step's update, and a step begins only
\* after the previous step's update.
C9_CodeOrder ==
    /\ pc = "decide" =>
         /\ ops = <<"reconstruct", "classify", "suc_rate", "loss",
                    "backward", "alpha", "update">>
         /\ suc_rate = SucRate(targeted, pre, labels, batch_size)
    /\ (pc = "for" /\ iters > 0) => ops[Len(ops)] = "update"
    /\ pc = "reconstruct" => ops = << >>

C9_Witness ==
    /\ pc = "decide" /\ i = 1 /\ ReachedThreshold(suc_rate)
    /\ q_tables[1][1] = 5 /\ factor_range[2] = 7

\* C10 (as stated): over any sequence of forward calls on one instance
\* alpha stays within [alpha_range[1], alpha_range[0]].
C10_AlphaInRange ==
    Constructed =>
        /\ RLeq(alpha, alpha_range[1], steps)
        /\ RLeq(alpha_range[2], alpha, steps)

====
